---- MODULE Spec2Model ----
(***************************************************************************)
(* Model of the getopt package (src/getopt/getopt.go): the option          *)
(* registry, the four option descriptors, the coercion helpers and         *)
(* ParseArgv.                                                              *)
(*                                                                         *)
(* A Go string is a sequence of one-character strings, so "--fl=T" is      *)
(* <<"-","-","f","l","=","T">> and the empty string is <<>>.  A pointer    *)
(* to a descriptor is its index in opts (the heap of descriptors ever      *)
(* constructed); the nil pointer is NIL.  ParseArgv is stepped one loop    *)
(* iteration at a time: ParseArgvCall enters the function, LoopBody runs   *)
(* one iteration of the range loop (lines 240-432), LoopExit runs the      *)
(* code after the loop (lines 433-442).  Nothing else can run between      *)
(* those steps of one call.                                                *)
(*                                                                         *)
(* Not modelled: the Help strings and the flags/optArgs/optVecs/optCounts  *)
(* copy lists (written by the constructors, never read by ParseArgv),      *)
(* PrintHelp, PrintVersion, the Program* strings and GetOpts.              *)
(***************************************************************************)
EXTENDS Integers, Sequences, FiniteSets, TLC

VARIABLES
    opts,             \* heap: every descriptor constructed so far, by index
    optByShort,       \* map[byte]any: short character -> descriptor index
    optByLong,        \* map[string]any: long name -> descriptor index
    Rest,             \* []string: arguments that were not program options
    argv,             \* the argument vector of the current / last call
    i,                \* 1-based position of the range loop in argv
    pc,               \* "idle" (no call running) or "loop" (inside ParseArgv)
    expecting_opt,    \* local of ParseArgv
    expecting_optarg, \* local of ParseArgv
    waiting_opt,      \* local of ParseArgv: *OptArg or NIL
    waiting_vec,      \* local of ParseArgv: *OptVec or NIL
    result,           \* what the last call returned (kind "none" before any call)
    stdinCalls,       \* number of times StdinHandler has been invoked
    used,             \* history: tokens handed to ParseArgv so far (bounds the model)
    opts0,            \* history: opts when the current / last call started
    Rest0,            \* history: Rest when the current / last call started
    stdin0,           \* history: stdinCalls when the current / last call started
    consumed,         \* history: positions of argv stored as an awaited value
    term,             \* history: position of the terminator met by this call, or 0
    pending,          \* history: descriptor whose value the call awaits, or NIL
    result0           \* history: what the call before the current / last one returned

vars == <<opts, optByShort, optByLong, Rest, argv, i, pc, expecting_opt,
          expecting_optarg, waiting_opt, waiting_vec, result, stdinCalls,
          used, opts0, Rest0, stdin0, consumed, term, pending, result0>>

-----------------------------------------------------------------------------
(* Bounds *)

\* Total number of tokens handed to ParseArgv over all calls of a behaviour.
MaxTokens == 3

\* Number of descriptors constructed in a behaviour.
MaxOpts == 3

-----------------------------------------------------------------------------
(* Data *)

NIL == 0

\* const initialCapacity = 0
initialCapacity == 0

\* make([]string, n): a slice of n empty strings.
MakeStrings(n) == [k \in 1..n |-> <<>>]

\* The zero-valued descriptor the constructors build (Help left out).
NewDescriptor(kind, short, long) ==
    [kind |-> kind, Short |-> short, Long |-> long,
     Passed |-> FALSE, Opt |-> <<>>, OptArgs |-> <<>>, Count |-> 0]

\* A registration that would leave an existing key alone.
MapPutKeepsFirst(m, k, v) ==
    IF k \in DOMAIN m THEN m
    ELSE [x \in DOMAIN m \cup {k} |-> IF x = k THEN v ELSE m[x]]

\* m[k] = v on a Go map.
MapPut(m, k, v) == [x \in (DOMAIN m) \cup {k} |-> IF x = k THEN v ELSE m[x]]

\* arg[from:] with Go's 0-based from, on a 1-based sequence.
Tail0(s, from) == SubSeq(s, from + 1, Len(s))

\* arg[from:to] with Go's 0-based bounds.
Slice0(s, from, to) == SubSeq(s, from + 1, to)

\* Values returned by ParseArgv.  kind "running" means: has not returned.
Ret(kind, short, long, text) ==
    [kind |-> kind, short |-> short, long |-> long, text |-> text]

Running == Ret("running", "", <<>>, <<>>)
Nil == Ret("nil", "", <<>>, <<>>)
\* A nil pointer dereference: the goroutine panics, ParseArgv does not return.
NilDeref == Ret("panic", "", <<>>, <<>>)


-----------------------------------------------------------------------------
(* Coercion helpers *)

UpperCase == <<"A","B","C","D","E","F","G","H","I","J","K","L","M",
               "N","O","P","Q","R","S","T","U","V","W","X","Y","Z">>
LowerCase == <<"a","b","c","d","e","f","g","h","i","j","k","l","m",
               "n","o","p","q","r","s","t","u","v","w","x","y","z">>
Digits == <<"0","1","2","3","4","5","6","7","8","9">>

IndexIn(seq, c) == IF \E k \in DOMAIN seq : seq[k] = c
                   THEN CHOOSE k \in DOMAIN seq : seq[k] = c
                   ELSE 0

\* Case folding of one ASCII byte.
Fold(c) == IF IndexIn(UpperCase, c) > 0 THEN LowerCase[IndexIn(UpperCase, c)] ELSE c

\* strings.EqualFold on ASCII strings.
EqualFold(s, t) ==
    /\ Len(s) = Len(t)
    /\ \A k \in 1..Len(s) : Fold(s[k]) = Fold(t[k])

\* Mutant of optargToBool: the literals are compared with == instead of
\* strings.EqualFold.
optargToBoolCaseSensitive(s) ==
    IF s = <<"t">> THEN [ok |-> TRUE, val |-> TRUE]
    ELSE IF s = <<"f">> THEN [ok |-> TRUE, val |-> FALSE]
    ELSE IF s = <<"t","r","u","e">> THEN [ok |-> TRUE, val |-> TRUE]
    ELSE IF s = <<"f","a","l","s","e">> THEN [ok |-> TRUE, val |-> FALSE]
    ELSE [ok |-> FALSE, val |-> FALSE]

\* optargToBool: [ok, val]; ok = FALSE is the error return.
optargToBool(s) ==
    IF EqualFold(s, <<"t">>) THEN [ok |-> TRUE, val |-> TRUE]
    ELSE IF EqualFold(s, <<"f">>) THEN [ok |-> TRUE, val |-> FALSE]
    ELSE IF EqualFold(s, <<"t","r","u","e">>) THEN [ok |-> TRUE, val |-> TRUE]
    ELSE IF EqualFold(s, <<"f","a","l","s","e">>) THEN [ok |-> TRUE, val |-> FALSE]
    ELSE [ok |-> FALSE, val |-> FALSE]

MinInt32 == -2147483647 - 1

\* Value of a digit byte, or 36 when the byte is no digit of any base.
DigitVal(c) ==
    IF IndexIn(Digits, c) > 0 THEN IndexIn(Digits, c) - 1
    ELSE IF IndexIn(LowerCase, Fold(c)) > 0 THEN IndexIn(LowerCase, Fold(c)) + 9
    ELSE 36

\* The digit loop of strconv.ParseUint, accumulating the NEGATED magnitude
\* so that 2^31 stays inside the 32-bit range.  Returns [err, neg]: err is
\* "" (no error), "syntax" or "range"; neg is minus the magnitude read.
RECURSIVE DigitLoop(_, _, _, _)
DigitLoop(s, k, base, acc) ==
    IF k > Len(s) THEN [err |-> "", neg |-> acc]
    ELSE LET d == DigitVal(s[k]) IN
         IF d >= base THEN [err |-> "syntax", neg |-> 0]
         ELSE IF acc < (MinInt32 + d + base - 1) \div base
              THEN [err |-> "range", neg |-> 0]
              ELSE DigitLoop(s, k + 1, base, acc * base - d)

\* strconv.ParseUint(s, 0, ...): base chosen from the prefix.  The byte '_'
\* is not part of the modelled alphabet.
ParseUint0(s) ==
    IF Len(s) = 0 THEN [err |-> "syntax", neg |-> 0]
    ELSE IF s[1] = "0"
         THEN IF Len(s) >= 3 /\ Fold(s[2]) = "b" THEN DigitLoop(Tail0(s, 2), 1, 2, 0)
              ELSE IF Len(s) >= 3 /\ Fold(s[2]) = "o" THEN DigitLoop(Tail0(s, 2), 1, 8, 0)
              ELSE IF Len(s) >= 3 /\ Fold(s[2]) = "x" THEN DigitLoop(Tail0(s, 2), 1, 16, 0)
              ELSE DigitLoop(Tail0(s, 1), 1, 8, 0)
         ELSE DigitLoop(s, 1, 10, 0)

\* Mutant of ParseInt: the base argument is 10 instead of 0.
ParseIntBaseTen(s) ==
    IF Len(s) = 0 THEN [ok |-> FALSE, val |-> 0]
    ELSE LET neg == s[1] = "-"
             body == IF s[1] = "+" \/ s[1] = "-" THEN Tail0(s, 1) ELSE s
             un == IF Len(body) = 0 THEN [err |-> "syntax", neg |-> 0]
                   ELSE DigitLoop(body, 1, 10, 0)
         IN  IF un.err # "" THEN [ok |-> FALSE, val |-> 0]
             ELSE IF ~neg /\ un.neg = MinInt32 THEN [ok |-> FALSE, val |-> 0]
             ELSE [ok |-> TRUE, val |-> IF neg THEN un.neg ELSE 0 - un.neg]

\* strconv.ParseInt(s, 0, 32): [ok, val].
ParseInt(s) ==
    IF Len(s) = 0 THEN [ok |-> FALSE, val |-> 0]
    ELSE LET neg == s[1] = "-"
             body == IF s[1] = "+" \/ s[1] = "-" THEN Tail0(s, 1) ELSE s
             un == ParseUint0(body)
         IN  IF un.err # "" THEN [ok |-> FALSE, val |-> 0]
             ELSE IF ~neg /\ un.neg = MinInt32 THEN [ok |-> FALSE, val |-> 0]
             ELSE [ok |-> TRUE, val |-> IF neg THEN un.neg ELSE 0 - un.neg]

-----------------------------------------------------------------------------
(* ParseArgv: the effects of one argument.  m is the record of everything  *)
(* one loop iteration can change: opts, Rest, the four locals, stdinCalls, *)
(* ret (Running until the call returns or panics) and the history field    *)
(* pending.                                                                *)

Kind(m, v) == m.opts[v].kind

Fail(m, r) == [m EXCEPT !.ret = r]

\* Lines 243-251: the argument is taken as the value of the waiting option.
AwaitedValue(m, arg) ==
    IF m.expecting_optarg
    THEN IF m.waiting_opt = NIL THEN Fail(m, NilDeref)
         ELSE [m EXCEPT !.opts[m.waiting_opt].Opt = arg,
                        !.expecting_opt = FALSE, !.pending = NIL]
    ELSE IF m.waiting_vec = NIL THEN Fail(m, NilDeref)
         ELSE [m EXCEPT !.opts[m.waiting_vec].OptArgs = Append(@, arg),
                        !.expecting_opt = FALSE, !.pending = NIL]

\* Mutant of SingleByte: the else of line 258 is lost, "-" is appended too.
SingleByteAlsoAppendsDash(m, arg, stdinErr) ==
    IF arg[1] = "-"
    THEN IF stdinErr
         THEN [m EXCEPT !.stdinCalls = @ + 1, !.ret = Ret("StdinError", "", <<>>, <<>>)]
         ELSE [m EXCEPT !.stdinCalls = @ + 1, !.Rest = Append(@, arg)]
    ELSE [m EXCEPT !.Rest = Append(@, arg)]

\* Lines 253-261: a one-byte argument.  stdinErr: StdinHandler returned an error.
SingleByte(m, arg, stdinErr) ==
    IF arg[1] = "-"
    THEN IF stdinErr
         THEN [m EXCEPT !.stdinCalls = @ + 1, !.ret = Ret("StdinError", "", <<>>, <<>>)]
         ELSE [m EXCEPT !.stdinCalls = @ + 1]
    ELSE [m EXCEPT !.Rest = Append(@, arg)]

\* Mutant of Terminator: the copy loop starts at j := i and copies "--" too.
TerminatorCopiesItself(m, later) ==
    [m EXCEPT !.Rest = @ \o <<(<<"-", "-">>)>> \o later, !.ret = Nil]

\* Lines 264-268: "--" appends every later argument to Rest and returns nil.
Terminator(m, later) == [m EXCEPT !.Rest = @ \o later, !.ret = Nil]

\* Mutant of ShortPositive: an else branch reports the unregistered
\* character, as the group scan of line 400 does.
ShortPositiveRejectsUnknown(m, c) ==
    IF c \in DOMAIN optByShort
    THEN LET v == optByShort[c] IN
         CASE Kind(m, v) = "Flag" -> [m EXCEPT !.opts[v].Passed = TRUE]
           [] Kind(m, v) = "OptArg" ->
                [m EXCEPT !.waiting_opt = v, !.expecting_opt = TRUE,
                          !.expecting_optarg = TRUE, !.pending = v]
           [] Kind(m, v) = "OptVec" ->
                [m EXCEPT !.waiting_vec = v, !.expecting_opt = TRUE,
                          !.expecting_optarg = FALSE, !.pending = v]
           [] Kind(m, v) = "OptCount" -> [m EXCEPT !.opts[v].Count = @ + 1]
    ELSE Fail(m, Ret("UnrecognizedShort", c, <<>>, <<>>))

\* Lines 270-289: "-c".
ShortPositive(m, c) ==
    IF c \in DOMAIN optByShort
    THEN LET v == optByShort[c] IN
         CASE Kind(m, v) = "Flag" -> [m EXCEPT !.opts[v].Passed = TRUE]
           [] Kind(m, v) = "OptArg" ->
                [m EXCEPT !.waiting_opt = v, !.expecting_opt = TRUE,
                          !.expecting_optarg = TRUE, !.pending = v]
           [] Kind(m, v) = "OptVec" ->
                [m EXCEPT !.waiting_vec = v, !.expecting_opt = TRUE,
                          !.expecting_optarg = FALSE, !.pending = v]
           [] Kind(m, v) = "OptCount" -> [m EXCEPT !.opts[v].Count = @ + 1]
    ELSE m

\* Mutant of ShortNegate: the OptVec is reset with make([]string, 1), a
\* slice holding one empty string.
ShortNegateLeavesOneEmpty(m, c) ==
    IF c \in DOMAIN optByShort
    THEN LET v == optByShort[c] IN
         CASE Kind(m, v) = "Flag" -> [m EXCEPT !.opts[v].Passed = FALSE]
           [] Kind(m, v) = "OptArg" -> [m EXCEPT !.opts[v].Opt = <<>>]
           [] Kind(m, v) = "OptVec" ->
                [m EXCEPT !.opts[v].OptArgs = MakeStrings(initialCapacity + 1)]
           [] Kind(m, v) = "OptCount" -> [m EXCEPT !.opts[v].Count = @ - 1]
    ELSE m

\* Lines 291-306: "+c".
ShortNegate(m, c) ==
    IF c \in DOMAIN optByShort
    THEN LET v == optByShort[c] IN
         CASE Kind(m, v) = "Flag" -> [m EXCEPT !.opts[v].Passed = FALSE]
           [] Kind(m, v) = "OptArg" -> [m EXCEPT !.opts[v].Opt = <<>>]
           [] Kind(m, v) = "OptVec" ->
                [m EXCEPT !.opts[v].OptArgs = MakeStrings(initialCapacity)]
           [] Kind(m, v) = "OptCount" -> [m EXCEPT !.opts[v].Count = @ - 1]
    ELSE m

\* Lines 314-336: "--name" without '='.
LongBare(m, name) ==
    IF name \in DOMAIN optByLong
    THEN LET v == optByLong[name] IN
         CASE Kind(m, v) = "Flag" -> [m EXCEPT !.opts[v].Passed = TRUE]
           [] Kind(m, v) = "OptArg" ->
                [m EXCEPT !.waiting_opt = v, !.expecting_opt = TRUE,
                          !.expecting_optarg = TRUE, !.pending = v]
           [] Kind(m, v) = "OptVec" ->
                [m EXCEPT !.waiting_vec = v, !.expecting_opt = TRUE,
                          !.expecting_optarg = FALSE, !.pending = v]
           [] Kind(m, v) = "OptCount" -> [m EXCEPT !.opts[v].Count = @ + 1]
    ELSE Fail(m, Ret("UnrecognizedLong", "", name, <<>>))

\* Mutant of LongAssign: the zero value of a failed conversion is stored
\* before the error is returned.
LongAssignStoresOnError(m, name, opt) ==
    IF name \in DOMAIN optByLong
    THEN LET v == optByLong[name] IN
         CASE Kind(m, v) = "Flag" ->
                IF optargToBool(opt).ok
                THEN [m EXCEPT !.opts[v].Passed = optargToBool(opt).val]
                ELSE [m EXCEPT !.opts[v].Passed = FALSE,
                               !.ret = Ret("BooleanParse", "", <<>>, <<>>)]
           [] Kind(m, v) = "OptArg" -> [m EXCEPT !.opts[v].Opt = opt]
           [] Kind(m, v) = "OptVec" -> [m EXCEPT !.opts[v].OptArgs = Append(@, opt)]
           [] Kind(m, v) = "OptCount" ->
                IF ParseInt(opt).ok
                THEN [m EXCEPT !.opts[v].Count = ParseInt(opt).val]
                ELSE [m EXCEPT !.opts[v].Count = 0,
                               !.ret = Ret("NumberParse", "", name, opt)]
    ELSE m

\* Lines 337-367: "--name=opt".
LongAssign(m, name, opt) ==
    IF name \in DOMAIN optByLong
    THEN LET v == optByLong[name] IN
         CASE Kind(m, v) = "Flag" ->
                IF optargToBool(opt).ok
                THEN [m EXCEPT !.opts[v].Passed = optargToBool(opt).val]
                ELSE Fail(m, Ret("BooleanParse", "", <<>>, <<>>))
           [] Kind(m, v) = "OptArg" -> [m EXCEPT !.opts[v].Opt = opt]
           [] Kind(m, v) = "OptVec" -> [m EXCEPT !.opts[v].OptArgs = Append(@, opt)]
           [] Kind(m, v) = "OptCount" ->
                IF ParseInt(opt).ok
                THEN [m EXCEPT !.opts[v].Count = ParseInt(opt).val]
                ELSE Fail(m, Ret("NumberParse", "", name, opt))
    ELSE m

\* strings.IndexByte(arg, '='), 0-based, -1 when absent.
IndexEquals(arg) ==
    IF \E k \in 1..Len(arg) : arg[k] = "="
    THEN (CHOOSE k \in 1..Len(arg) :
             arg[k] = "=" /\ \A j \in 1..(k - 1) : arg[j] # "=") - 1
    ELSE -1

\* Mutant of LongOption: the value is cut at arg[equals:] and keeps the '='.
LongOptionKeepsEquals(m, arg) ==
    LET equals == IndexEquals(arg) IN
    IF equals = -1
    THEN LongBare(m, Tail0(arg, 2))
    ELSE LongAssign(m, Slice0(arg, 2, equals), Tail0(arg, equals))

\* Lines 312-367: an argument of three or more bytes starting with "--".
LongOption(m, arg) ==
    LET equals == IndexEquals(arg) IN
    IF equals = -1
    THEN LongBare(m, Tail0(arg, 2))
    ELSE LongAssign(m, Slice0(arg, 2, equals), Tail0(arg, equals + 1))

\* Mutant of ShortGroup: the goto of lines 378 and 387 is lost, the bytes
\* of an attached value are scanned as options as well.
RECURSIVE ShortGroupScansOn(_, _, _)
ShortGroupScansOn(m, arg, j) ==
    IF j > Len(arg) THEN m
    ELSE IF arg[j] \in DOMAIN optByShort
    THEN LET v == optByShort[arg[j]] IN
         CASE Kind(m, v) = "Flag" ->
                ShortGroupScansOn([m EXCEPT !.opts[v].Passed = TRUE], arg, j + 1)
           [] Kind(m, v) = "OptArg" ->
                IF j < Len(arg)
                THEN ShortGroupScansOn(
                         [m EXCEPT !.opts[v].Opt = SubSeq(arg, j + 1, Len(arg))],
                         arg, j + 1)
                ELSE ShortGroupScansOn([m EXCEPT !.expecting_opt = TRUE,
                                                 !.expecting_optarg = TRUE,
                                                 !.pending = v], arg, j + 1)
           [] Kind(m, v) = "OptVec" ->
                IF j < Len(arg)
                THEN ShortGroupScansOn(
                         [m EXCEPT !.opts[v].OptArgs =
                                       Append(@, SubSeq(arg, j + 1, Len(arg)))],
                         arg, j + 1)
                ELSE ShortGroupScansOn([m EXCEPT !.expecting_opt = TRUE,
                                                 !.expecting_optarg = FALSE,
                                                 !.pending = v], arg, j + 1)
           [] Kind(m, v) = "OptCount" ->
                ShortGroupScansOn([m EXCEPT !.opts[v].Count = @ + 1], arg, j + 1)
    ELSE Fail(m, Ret("UnrecognizedShort", arg[j], <<>>, <<>>))

\* Lines 369-403: a group of shorts after '-'; j is the 1-based position of
\* the byte being looked at.  The last-byte OptArg / OptVec branches set the
\* two flags and leave waiting_opt / waiting_vec as they were.
RECURSIVE ShortGroup(_, _, _)
ShortGroup(m, arg, j) ==
    IF j > Len(arg) THEN m
    ELSE IF arg[j] \in DOMAIN optByShort
    THEN LET v == optByShort[arg[j]] IN
         CASE Kind(m, v) = "Flag" ->
                ShortGroup([m EXCEPT !.opts[v].Passed = TRUE], arg, j + 1)
           [] Kind(m, v) = "OptArg" ->
                IF j < Len(arg)
                THEN [m EXCEPT !.opts[v].Opt = SubSeq(arg, j + 1, Len(arg))]
                ELSE ShortGroup([m EXCEPT !.expecting_opt = TRUE,
                                          !.expecting_optarg = TRUE,
                                          !.pending = v], arg, j + 1)
           [] Kind(m, v) = "OptVec" ->
                IF j < Len(arg)
                THEN [m EXCEPT !.opts[v].OptArgs =
                                   Append(@, SubSeq(arg, j + 1, Len(arg)))]
                ELSE ShortGroup([m EXCEPT !.expecting_opt = TRUE,
                                          !.expecting_optarg = FALSE,
                                          !.pending = v], arg, j + 1)
           [] Kind(m, v) = "OptCount" ->
                ShortGroup([m EXCEPT !.opts[v].Count = @ + 1], arg, j + 1)
    ELSE Fail(m, Ret("UnrecognizedShort", arg[j], <<>>, <<>>))

\* Mutant of NegateGroup: only the first byte of a '+' group is negated.
NegateGroupFirstOnly(m, arg, j) ==
    IF arg[j] \in DOMAIN optByShort THEN ShortNegate(m, arg[j])
    ELSE Fail(m, Ret("UnrecognizedShort", arg[j], <<>>, <<>>))

\* Mutant of NegateGroup: an OptArg or OptVec met in a '+' group starts a
\* wait for a value, as it does in a '-' group.
RECURSIVE NegateGroupAwaitsValue(_, _, _)
NegateGroupAwaitsValue(m, arg, j) ==
    IF j > Len(arg) THEN m
    ELSE IF arg[j] \in DOMAIN optByShort
    THEN LET v == optByShort[arg[j]] IN
         CASE Kind(m, v) = "Flag" ->
                NegateGroupAwaitsValue([m EXCEPT !.opts[v].Passed = FALSE], arg, j + 1)
           [] Kind(m, v) = "OptArg" ->
                NegateGroupAwaitsValue([m EXCEPT !.opts[v].Opt = <<>>,
                                                 !.waiting_opt = v,
                                                 !.expecting_opt = TRUE,
                                                 !.expecting_optarg = TRUE,
                                                 !.pending = v], arg, j + 1)
           [] Kind(m, v) = "OptVec" ->
                NegateGroupAwaitsValue([m EXCEPT !.opts[v].OptArgs =
                                                     MakeStrings(initialCapacity),
                                                 !.waiting_vec = v,
                                                 !.expecting_opt = TRUE,
                                                 !.expecting_optarg = FALSE,
                                                 !.pending = v], arg, j + 1)
           [] Kind(m, v) = "OptCount" ->
                NegateGroupAwaitsValue([m EXCEPT !.opts[v].Count = @ - 1], arg, j + 1)
    ELSE Fail(m, Ret("UnrecognizedShort", arg[j], <<>>, <<>>))

\* Lines 405-427: a group of shorts after '+'.
RECURSIVE NegateGroup(_, _, _)
NegateGroup(m, arg, j) ==
    IF j > Len(arg) THEN m
    ELSE IF arg[j] \in DOMAIN optByShort
    THEN LET v == optByShort[arg[j]] IN
         CASE Kind(m, v) = "Flag" ->
                NegateGroup([m EXCEPT !.opts[v].Passed = FALSE], arg, j + 1)
           [] Kind(m, v) = "OptArg" ->
                NegateGroup([m EXCEPT !.opts[v].Opt = <<>>], arg, j + 1)
           [] Kind(m, v) = "OptVec" ->
                NegateGroup([m EXCEPT !.opts[v].OptArgs =
                                          MakeStrings(initialCapacity)], arg, j + 1)
           [] Kind(m, v) = "OptCount" ->
                NegateGroup([m EXCEPT !.opts[v].Count = @ - 1], arg, j + 1)
    ELSE Fail(m, Ret("UnrecognizedShort", arg[j], <<>>, <<>>))

\* Mutant of TwoBytes: the else of line 307 is lost, a two-byte positional
\* argument is dropped.
TwoBytesDropsPositional(m, arg, later) ==
    IF arg[1] = "-"
    THEN IF arg[2] = "-" THEN Terminator(m, later) ELSE ShortPositive(m, arg[2])
    ELSE IF arg[1] = "+" THEN ShortNegate(m, arg[2])
    ELSE m

\* Lines 262-309: an argument of exactly two bytes.
TwoBytes(m, arg, later) ==
    IF arg[1] = "-"
    THEN IF arg[2] = "-" THEN Terminator(m, later) ELSE ShortPositive(m, arg[2])
    ELSE IF arg[1] = "+" THEN ShortNegate(m, arg[2])
    ELSE [m EXCEPT !.Rest = Append(@, arg)]

\* Mutant of ManyBytes: line 429 assigns a fresh slice instead of appending.
ManyBytesResetsRest(m, arg) ==
    IF arg[1] = "-"
    THEN IF arg[2] = "-" THEN LongOption(m, arg) ELSE ShortGroup(m, arg, 2)
    ELSE IF arg[1] = "+" THEN NegateGroup(m, arg, 2)
    ELSE [m EXCEPT !.Rest = <<arg>>]

\* Lines 310-431: an argument of three or more bytes.
ManyBytes(m, arg) ==
    IF arg[1] = "-"
    THEN IF arg[2] = "-" THEN LongOption(m, arg) ELSE ShortGroup(m, arg, 2)
    ELSE IF arg[1] = "+" THEN NegateGroup(m, arg, 2)
    ELSE [m EXCEPT !.Rest = Append(@, arg)]

\* Mutant of Iteration: the test of line 243 comes before the test of line
\* 241, an empty argument is taken as an awaited value.
IterationAwaitsFirst(m, arg, later, stdinErr) ==
    IF m.expecting_opt THEN AwaitedValue(m, arg)
    ELSE IF Len(arg) = 0 THEN m
    ELSE IF Len(arg) = 1 THEN SingleByte(m, arg, stdinErr)
    ELSE IF Len(arg) = 2 THEN TwoBytes(m, arg, later)
    ELSE ManyBytes(m, arg)

\* Lines 241-431: one iteration of the range loop on argument arg; later is
\* argv[i+1:].
Iteration(m, arg, later, stdinErr) ==
    IF Len(arg) = 0 THEN m
    ELSE IF m.expecting_opt THEN AwaitedValue(m, arg)
    ELSE IF Len(arg) = 1 THEN SingleByte(m, arg, stdinErr)
    ELSE IF Len(arg) = 2 THEN TwoBytes(m, arg, later)
    ELSE ManyBytes(m, arg)

\* Lines 433-442: the return after the loop.
AfterLoop(m) ==
    IF m.expecting_opt
    THEN IF m.expecting_optarg
         THEN IF m.waiting_opt = NIL THEN NilDeref
              ELSE Ret("MissingArgument", m.opts[m.waiting_opt].Short,
                       m.opts[m.waiting_opt].Long, <<>>)
         ELSE IF m.waiting_vec = NIL THEN NilDeref
              ELSE Ret("MissingArgument", m.opts[m.waiting_vec].Short,
                       m.opts[m.waiting_vec].Long, <<>>)
    ELSE Nil

\* Lines 240-432: the range loop from position k of args on, up to its end
\* or to the first return from inside it.  StdinHandler returns nil.
RECURSIVE Steps(_, _, _)
Steps(m, args, k) ==
    IF k > Len(args) THEN m
    ELSE LET n == Iteration(m, args[k], SubSeq(args, k + 1, Len(args)), FALSE)
         IN  IF n.ret = Running THEN Steps(n, args, k + 1) ELSE n

\* Lines 233-443: a whole call on args from the package state in m.
Run(m, args) ==
    LET n == Steps([m EXCEPT !.expecting_opt = FALSE, !.expecting_optarg = FALSE,
                             !.waiting_opt = NIL, !.waiting_vec = NIL,
                             !.pending = NIL, !.ret = Running], args, 1)
    IN  IF n.ret = Running THEN [n EXCEPT !.ret = AfterLoop(n)] ELSE n

-----------------------------------------------------------------------------
(* Actions *)

Init ==
    /\ opts = <<>>
    /\ optByShort = [x \in {} |-> NIL]
    /\ optByLong = [x \in {} |-> NIL]
    /\ Rest = MakeStrings(initialCapacity)
    /\ argv = <<>>
    /\ i = 1
    /\ pc = "idle"
    /\ expecting_opt = FALSE
    /\ expecting_optarg = FALSE
    /\ waiting_opt = NIL
    /\ waiting_vec = NIL
    /\ result = Ret("none", "", <<>>, <<>>)
    /\ stdinCalls = 0
    /\ used = 0
    /\ opts0 = <<>>
    /\ Rest0 = <<>>
    /\ stdin0 = 0
    /\ consumed = {}
    /\ term = 0
    /\ pending = NIL
    /\ result0 = Ret("none", "", <<>>, <<>>)

\* The body shared by the four constructors: build the descriptor, store it
\* under both keys (overwriting), return the pointer.
Construct(kind, short, long) ==
    /\ pc = "idle"
    /\ Len(opts) < MaxOpts
    /\ opts' = Append(opts, NewDescriptor(kind, short, long))
    /\ optByShort' = MapPut(optByShort, short, Len(opts) + 1)
    /\ optByLong' = MapPut(optByLong, long, Len(opts) + 1)
    /\ UNCHANGED <<Rest, argv, i, pc, expecting_opt, expecting_optarg,
                   waiting_opt, waiting_vec, result, stdinCalls, used,
                   opts0, Rest0, stdin0, consumed, term, pending, result0>>

NewFlag(short, long) == Construct("Flag", short, long)

NewOptArg(short, long) == Construct("OptArg", short, long)

NewOptVec(short, long) == Construct("OptVec", short, long)

NewOptCount(short, long) == Construct("OptCount", short, long)

\* Mutant of ParseArgv: the four locals of lines 234-238 are package
\* variables and keep their values from one call to the next.
ParseArgvKeepsLocals(args) ==
    /\ pc = "idle"
    /\ used + Len(args) <= MaxTokens
    /\ argv' = args
    /\ i' = 1
    /\ pc' = "loop"
    /\ result' = Running
    /\ used' = used + Len(args)
    /\ opts0' = opts
    /\ Rest0' = Rest
    /\ stdin0' = stdinCalls
    /\ consumed' = {}
    /\ term' = 0
    /\ result0' = result
    /\ UNCHANGED <<opts, optByShort, optByLong, Rest, stdinCalls, expecting_opt,
                   expecting_optarg, waiting_opt, waiting_vec, pending>>

\* Lines 233-238: ParseArgv(args) is entered and its locals are initialised.
ParseArgv(args) ==
    /\ pc = "idle"
    /\ used + Len(args) <= MaxTokens
    /\ argv' = args
    /\ i' = 1
    /\ pc' = "loop"
    /\ expecting_opt' = FALSE
    /\ expecting_optarg' = FALSE
    /\ waiting_opt' = NIL
    /\ waiting_vec' = NIL
    /\ result' = Running
    /\ used' = used + Len(args)
    /\ opts0' = opts
    /\ Rest0' = Rest
    /\ stdin0' = stdinCalls
    /\ consumed' = {}
    /\ term' = 0
    /\ pending' = NIL
    /\ result0' = result
    /\ UNCHANGED <<opts, optByShort, optByLong, Rest, stdinCalls>>

Locals ==
    [opts |-> opts, Rest |-> Rest, expecting_opt |-> expecting_opt,
     expecting_optarg |-> expecting_optarg, waiting_opt |-> waiting_opt,
     waiting_vec |-> waiting_vec, stdinCalls |-> stdinCalls,
     pending |-> pending, ret |-> Running]

\* One iteration of the range loop.  StdinHandler is the caller's callback:
\* it returns nil or an error.
LoopBody ==
    /\ pc = "loop"
    /\ i <= Len(argv)
    /\ \E stdinErr \in BOOLEAN :
         LET m == Iteration(Locals, argv[i], SubSeq(argv, i + 1, Len(argv)), stdinErr)
         IN  /\ opts' = m.opts
             /\ Rest' = m.Rest
             /\ expecting_opt' = m.expecting_opt
             /\ expecting_optarg' = m.expecting_optarg
             /\ waiting_opt' = m.waiting_opt
             /\ waiting_vec' = m.waiting_vec
             /\ stdinCalls' = m.stdinCalls
             /\ pending' = m.pending
             /\ result' = m.ret
             /\ pc' = IF m.ret = Running THEN "loop" ELSE "idle"
             /\ i' = IF m.ret = Running THEN i + 1 ELSE i
             /\ consumed' = IF Len(argv[i]) > 0 /\ expecting_opt /\ m.ret = Running
                            THEN consumed \cup {i} ELSE consumed
             /\ term' = IF Len(argv[i]) = 2 /\ ~expecting_opt /\ argv[i] = <<"-", "-">>
                        THEN i ELSE term
    /\ UNCHANGED <<optByShort, optByLong, argv, used, opts0, Rest0, stdin0, result0>>

\* The loop has run out of arguments: lines 433-442.
LoopExit ==
    /\ pc = "loop"
    /\ i > Len(argv)
    /\ result' = AfterLoop(Locals)
    /\ pc' = "idle"
    /\ UNCHANGED <<opts, optByShort, optByLong, Rest, argv, i, expecting_opt,
                   expecting_optarg, waiting_opt, waiting_vec, stdinCalls, used,
                   opts0, Rest0, stdin0, consumed, term, pending, result0>>

\* All argument vectors over the token set T that fit the remaining budget.
Argvs(T) == UNION {[1..n -> T] : n \in 0..(MaxTokens - used)}

-----------------------------------------------------------------------------
(* Tokens and option declarations the specifications draw from *)

tEmpty == <<>>
tDash == <<"-">>
tDashDash == <<"-", "-">>
tP == <<"p">>
tPq == <<"p", "q">>
tPqr == <<"p", "q", "r">>

NameFl == <<"f", "l">>
NameOa == <<"o", "a">>
NameVe == <<"v", "e">>
NameCt == <<"c", "t">>

\* The short option -c, the negation +c, the long option --name, --name=lit.
Minus(c) == <<"-", c>>
Plus(c) == <<"+", c>>
Long(name) == <<"-", "-">> \o name
LongEq(name, lit) == <<"-", "-">> \o name \o <<"=">> \o lit

\* An option is registered once: its keys are free.
Free(short, long) == short \notin DOMAIN optByShort /\ long \notin DOMAIN optByLong

-----------------------------------------------------------------------------
(* Spec: leftover arguments, the terminator and "-".  One Flag -f/--fl and  *)
(* one OptArg -o/--oa, each registered at most once, in any order, at any   *)
(* time between calls.                                                      *)

RestTokens ==
    {tEmpty, tDash, tDashDash, tP, tPq, tPqr, Minus("f"), Plus("f"),
     Long(NameOa), LongEq(NameFl, <<"T">>)}

Next ==
    \/ Free("f", NameFl) /\ NewFlag("f", NameFl)
    \/ Free("o", NameOa) /\ NewOptArg("o", NameOa)
    \/ \E args \in Argvs(RestTokens) : ParseArgv(args)
    \/ LoopBody
    \/ LoopExit

Spec == Init /\ [][Next]_vars

-----------------------------------------------------------------------------
(* Vocabulary of the properties *)

\* A step of the range loop is about to look at argv[i].
AtToken == pc = "loop" /\ i <= Len(argv)

\* The call has returned (or panicked); a call has been made.
Returned == pc = "idle" /\ result.kind # "none"

\* Number of argv positions whose iteration ran to its end without leaving
\* ParseArgv.  After a return from inside the loop i stays on the argument
\* that returned.
Handled == i - 1

\* The terminator has acted: the arguments after it were appended in one go.
AfterTerm == IF Returned /\ term > 0 THEN Len(argv) - term ELSE 0

\* What this call appended to Rest before any terminator.
AppendedBeforeTerm == SubSeq(Rest, Len(Rest0) + 1, Len(Rest) - AfterTerm)

\* The caller can reach descriptor d by both of its names.
Registered(d) ==
    /\ d \in 1..Len(opts)
    /\ opts[d].Short \in DOMAIN optByShort /\ optByShort[opts[d].Short] = d
    /\ opts[d].Long \in DOMAIN optByLong /\ optByLong[opts[d].Long] = d

RegisteredAs(d, kind) == Registered(d) /\ opts[d].kind = kind

-----------------------------------------------------------------------------
(* C1 *)

\* C1: when ParseArgv, not awaiting a value, meets the argument "--", every
\* later argument of the call is appended to Rest verbatim and in order, no
\* descriptor changes, StdinHandler is not invoked, and the call returns nil.
C1_TerminatorSendsLaterArgsToRest ==
    [][(AtToken /\ ~expecting_opt /\ argv[i] = tDashDash)
         => /\ Rest' = Rest \o SubSeq(argv, i + 1, Len(argv))
            /\ opts' = opts
            /\ stdinCalls' = stdinCalls
            /\ pc' = "idle"
            /\ result' = Nil]_vars

\* "--" first, then the registered option "-f" and "-": both land in Rest,
\* the flag stays false, StdinHandler was not called.
C1_Witness ==
    /\ Returned /\ result = Nil
    /\ term = 1 /\ Len(argv) = 3
    /\ argv[2] = Minus("f") /\ argv[3] = tDash
    /\ \E d \in 1..Len(opts) : RegisteredAs(d, "Flag") /\ opts[d].Short = "f"
                                 /\ ~opts[d].Passed
    /\ Rest = Rest0 \o <<Minus("f"), tDash>>
    /\ stdinCalls = stdin0

-----------------------------------------------------------------------------
(* C4 *)

\* Positions of "-" the loop has handled that were neither taken as an
\* awaited value nor lie behind the terminator.
DashesSeen ==
    {k \in 1..Handled : argv[k] = tDash /\ k \notin consumed
                         /\ (term = 0 \/ k < term)}
        \cup (IF Returned /\ result.kind = "StdinError" THEN {i} ELSE {})

\* C4 as stated: after a call that returned nil, StdinHandler has been invoked
\* once for each "-" in argv, and no "-" was added to Rest.
C4_EveryDashInvokesStdin ==
    (Returned /\ result = Nil)
        => /\ stdinCalls - stdin0 = Cardinality({k \in 1..Len(argv) : argv[k] = tDash})
           /\ \A k \in (Len(Rest0) + 1)..Len(Rest) : Rest[k] # tDash

\* C4 amended: StdinHandler has been invoked exactly once for each "-" that
\* the loop met while not awaiting a value and before the terminator, and
\* none of those was appended to Rest.
C4_DashInvokesStdinOnce ==
    /\ stdinCalls - stdin0 = Cardinality(DashesSeen)
    /\ \A k \in 1..Len(AppendedBeforeTerm) : AppendedBeforeTerm[k] # tDash

\* "-" in front of the terminator and again behind it: one invocation, and
\* the second "-" is in Rest.
C4_Witness ==
    /\ Returned /\ result = Nil
    /\ argv = <<tDash, tDashDash, tDash>>
    /\ stdinCalls = stdin0 + 1
    /\ Rest = Rest0 \o <<tDash>>

-----------------------------------------------------------------------------
(* C5 *)

\* The argument is one of the option forms of lines 262-427.
OptionForm(arg) ==
    /\ Len(arg) >= 2
    /\ arg[1] \in {"-", "+"}
    /\ arg # tDashDash

\* The key the option form names first is not registered.
NamesUnregistered(arg) ==
    IF arg[1] = "-" /\ arg[2] = "-"
    THEN IF IndexEquals(arg) = -1
         THEN Tail0(arg, 2) \notin DOMAIN optByLong
         ELSE Slice0(arg, 2, IndexEquals(arg)) \notin DOMAIN optByLong
    ELSE arg[2] \notin DOMAIN optByShort

\* C5 as stated: an option form whose short character or long name is not
\* registered makes the call return an UnrecognizedOption error.
C5_UnregisteredOptionAborts ==
    [][(AtToken /\ ~expecting_opt /\ OptionForm(argv[i]) /\ NamesUnregistered(argv[i]))
         => /\ pc' = "idle"
            /\ result'.kind \in {"UnrecognizedShort", "UnrecognizedLong"}]_vars

-----------------------------------------------------------------------------
(* C14 *)

\* "-c" or "+c" with an unregistered c, or "--name=V" with an unregistered
\* name.
IgnoredForm(arg) ==
    \/ /\ Len(arg) = 2
       /\ arg[1] \in {"-", "+"} /\ arg # tDashDash
       /\ arg[2] \notin DOMAIN optByShort
    \/ /\ Len(arg) >= 3
       /\ arg[1] = "-" /\ arg[2] = "-"
       /\ IndexEquals(arg) # -1
       /\ Slice0(arg, 2, IndexEquals(arg)) \notin DOMAIN optByLong

\* C14: a two-byte "-c" or "+c" whose c is not registered, and a "--name=V"
\* whose name is not registered, are skipped in silence: no descriptor
\* changes, Rest is unchanged, StdinHandler is not invoked, no value is
\* awaited, no error is returned and the loop goes on to the next argument.
C14_UnregisteredIsIgnored ==
    [][(AtToken /\ ~expecting_opt /\ IgnoredForm(argv[i]))
         => /\ opts' = opts
            /\ Rest' = Rest
            /\ stdinCalls' = stdinCalls
            /\ ~expecting_opt'
            /\ result' = Running
            /\ pc' = "loop" /\ i' = i + 1]_vars

\* Nothing is registered as f: "-f" and "--fl=T" pass without a trace and
\* the positional behind them is still collected.
C14_Witness ==
    /\ Returned /\ result = Nil
    /\ argv = <<Minus("f"), LongEq(NameFl, <<"T">>), tP>>
    /\ "f" \notin DOMAIN optByShort /\ NameFl \notin DOMAIN optByLong
    /\ opts = opts0
    /\ Rest = Rest0 \o <<tP>>

-----------------------------------------------------------------------------
(* C10 *)

\* The positional shapes: one byte other than "-", or two or more bytes not
\* starting with '-' or '+'.
Positional(arg) ==
    \/ Len(arg) = 1 /\ arg # tDash
    \/ Len(arg) >= 2 /\ arg[1] \notin {"-", "+"}

\* The positional arguments among argv[1..n] that were not taken as an
\* awaited value and do not lie behind the terminator, in argv order.
RECURSIVE Leftover(_)
Leftover(n) ==
    IF n = 0 THEN <<>>
    ELSE Leftover(n - 1) \o
         (IF Positional(argv[n]) /\ n \notin consumed /\ (term = 0 \/ n < term)
          THEN <<argv[n]>> ELSE <<>>)

\* C10: what a call has appended to Rest before any terminator is exactly the
\* positional arguments handled so far that were not taken as an awaited
\* value, in argv order; option arguments and awaited values are not in it.
C10_RestCollectsPositionals == AppendedBeforeTerm = Leftover(Handled)

\* "pq", then --oa taking "p" as its value: only "pq" is left over.
C10_Witness ==
    /\ Returned /\ result = Nil
    /\ argv = <<tPq, Long(NameOa), tP>>
    /\ consumed = {3}
    /\ Rest = Rest0 \o <<tPq>>
    /\ \E d \in 1..Len(opts) : RegisteredAs(d, "OptArg") /\ opts[d].Opt = tP

-----------------------------------------------------------------------------
(* C18 *)

\* args[1..n] without the empty arguments that stand in front of position t
\* (in front of the terminator), or without any empty argument when t = 0.
RECURSIVE WithoutEmpties(_, _, _)
WithoutEmpties(args, n, t) ==
    IF n = 0 THEN <<>>
    ELSE WithoutEmpties(args, n - 1, t) \o
         (IF args[n] = tEmpty /\ (t = 0 \/ n < t) THEN <<>> ELSE <<args[n]>>)

\* The package state the current / last call started from.
CallStart ==
    [opts |-> opts0, Rest |-> Rest0, expecting_opt |-> FALSE,
     expecting_optarg |-> FALSE, waiting_opt |-> NIL, waiting_vec |-> NIL,
     stdinCalls |-> stdin0, pending |-> NIL, ret |-> Running]

\* C18: empty arguments in front of the terminator have no effect, also
\* while a value is awaited: a call returns the same result and leaves the
\* same descriptors and Rest (and has invoked StdinHandler as often) as a
\* call from the same state on argv without those empty arguments, with a
\* StdinHandler that returns nil in both.
C18_EmptyTokensHaveNoEffect ==
    (Returned /\ Len(opts) = Len(opts0) /\ result.kind # "StdinError")
        => LET n == Run(CallStart, WithoutEmpties(argv, Len(argv), term))
           IN  /\ n.ret = result
               /\ n.opts = opts
               /\ n.Rest = Rest
               /\ n.stdinCalls = stdinCalls

\* An empty argument between --oa and its value: the value is still "p".
C18_Witness ==
    /\ Returned /\ result = Nil
    /\ argv = <<Long(NameOa), tEmpty, tP>>
    /\ consumed = {3}
    /\ Rest = Rest0
    /\ \E d \in 1..Len(opts) : RegisteredAs(d, "OptArg") /\ opts[d].Opt = tP

-----------------------------------------------------------------------------
(* C19 *)

\* C19: Rest only grows at its end: whatever ParseArgv does, whether the
\* call goes on, returns nil or returns an error, the contents Rest had are a
\* prefix of the contents it has afterwards, so the Rest a call started with
\* is a prefix of the Rest it leaves.
C19_RestIsAppendOnly ==
    [][/\ Len(Rest) <= Len(Rest')
       /\ SubSeq(Rest', 1, Len(Rest)) = Rest
       /\ Len(Rest0') <= Len(Rest')
       /\ SubSeq(Rest', 1, Len(Rest0')) = Rest0']_vars

\* An earlier call left "p"; this one appended "pqr" and then failed on the
\* unregistered --oa: both are still there, in order.
C19_Witness ==
    /\ Returned /\ result.kind = "UnrecognizedLong"
    /\ argv = <<tPqr, Long(NameOa)>>
    /\ Rest0 = <<tP>>
    /\ Rest = <<tP, tPqr>>

-----------------------------------------------------------------------------
(* SpecArg: one OptArg -o/--oa and every way of giving it a value.          *)

tA == <<"A">>
tB == <<"B">>

ArgTokens ==
    {tEmpty, tA, LongEq(NameOa, tA), LongEq(NameOa, tEmpty), Long(NameOa),
     Minus("o") \o tA, Minus("o") \o tB, Minus("o"), Plus("o")}

NextArg ==
    \/ Free("o", NameOa) /\ NewOptArg("o", NameOa)
    \/ \E args \in Argvs(ArgTokens) : ParseArgv(args)
    \/ LoopBody
    \/ LoopExit

SpecArg == Init /\ [][NextArg]_vars

\* The last non-empty argument in front of position i (<<>> if there is none).
PrevArg ==
    LET js == {j \in 1..(i - 1) : argv[j] # tEmpty}
    IN  IF js = {} THEN tEmpty
        ELSE argv[CHOOSE j \in js : \A k \in js : k <= j]

\* s starts with prefix.
StartsWith(s, prefix) ==
    Len(s) >= Len(prefix) /\ SubSeq(s, 1, Len(prefix)) = prefix

\* argv[i] gives descriptor d a value as "--long=V" or as "-xV".
InlineForm(d) ==
    /\ AtToken /\ ~expecting_opt
    /\ \/ StartsWith(argv[i], LongEq(opts[d].Long, tEmpty))
       \/ Len(argv[i]) >= 3 /\ StartsWith(argv[i], Minus(opts[d].Short))

InlineValue(d) ==
    IF StartsWith(argv[i], LongEq(opts[d].Long, tEmpty))
    THEN Tail0(argv[i], Len(opts[d].Long) + 3)
    ELSE Tail0(argv[i], 2)

\* argv[i] is the V of "--long" V: the argument in front of it is "--long"
\* and the loop is awaiting (so that "--long" was not itself taken as a value).
SeparateForm(d) ==
    /\ AtToken /\ expecting_opt
    /\ PrevArg = Long(opts[d].Long)

\* C2 as stated: "--long=V", "--long" V and "-xV" each leave value == V, for
\* any V, whatever the value was before.
C2_AnyValueIsStored ==
    [][\A d \in 1..Len(opts) : RegisteredAs(d, "OptArg") =>
          /\ InlineForm(d) => opts'[d].Opt = InlineValue(d)
          /\ SeparateForm(d) => opts'[d].Opt = argv[i]]_vars

\* C2 amended: the same for any non-empty V.  (An empty argument after
\* "--long" is skipped and the option keeps waiting.)
C2_NonEmptyValueIsStored ==
    [][\A d \in 1..Len(opts) : RegisteredAs(d, "OptArg") =>
          /\ InlineForm(d) => opts'[d].Opt = InlineValue(d) /\ result' = Running
          /\ (SeparateForm(d) /\ argv[i] # tEmpty)
                => opts'[d].Opt = argv[i] /\ result' = Running]_vars

\* -oB, then --oa A in the same call: the later value A has replaced B.
C2_Witness ==
    /\ Returned /\ result = Nil
    /\ argv = <<Minus("o") \o tB, Long(NameOa), tA>>
    /\ \E d \in 1..Len(opts) : RegisteredAs(d, "OptArg") /\ opts[d].Opt = tA

\* C20: a wait for a value never carries over from one call to the next:
\* whatever the call before returned (MissingArgument included), a call
\* starts with nothing awaited, its first argument is never taken as an
\* awaited value, and an argument is taken as one only behind a non-empty
\* argument of the same call.
C20_AwaitingEndsWithTheCall ==
    /\ (pc = "loop" /\ i = 1)
          => ~expecting_opt /\ waiting_opt = NIL /\ waiting_vec = NIL
    /\ 1 \notin consumed
    /\ \A k \in consumed : \E j \in 1..(k - 1) : argv[j] # tEmpty

\* The call before ended with MissingArgument for o; this call's only
\* argument "A" went to Rest and o kept its value.
C20_Witness ==
    /\ Returned /\ result = Nil
    /\ result0.kind = "MissingArgument" /\ result0.short = "o"
    /\ argv = <<tA>>
    /\ consumed = {}
    /\ Rest = Rest0 \o <<tA>>
    /\ \E d \in 1..Len(opts0) : RegisteredAs(d, "OptArg") /\ opts[d] = opts0[d]

-----------------------------------------------------------------------------
(* SpecGroup: groups of shorts that end in an option taking a value.  One   *)
(* Flag -f and two OptArgs -o and -p.                                       *)

NamePa == <<"p", "a">>

GroupTokens ==
    {tEmpty, tA, <<"-", "f", "o">>, Minus("p"), Minus("o"), Long(NameOa)}

NextGroup ==
    \/ Free("f", NameFl) /\ NewFlag("f", NameFl)
    \/ Free("o", NameOa) /\ NewOptArg("o", NameOa)
    \/ Free("p", NamePa) /\ NewOptArg("p", NamePa)
    \/ \E args \in Argvs(GroupTokens) : ParseArgv(args)
    \/ LoopBody
    \/ LoopExit

SpecGroup == Init /\ [][NextGroup]_vars

KindOfShort(c) == IF c \in DOMAIN optByShort THEN opts[optByShort[c]].kind ELSE "none"

\* A '-' group of three or more bytes: Flags and Counters, then one OptArg
\* or OptVec as its last byte.
GroupEndingInValueOption(arg) ==
    /\ Len(arg) >= 3
    /\ arg[1] = "-" /\ arg[2] # "-"
    /\ \A k \in 2..(Len(arg) - 1) : KindOfShort(arg[k]) \in {"Flag", "OptCount"}
    /\ KindOfShort(arg[Len(arg)]) \in {"OptArg", "OptVec"}

\* C3 as stated: after such a group the next non-empty argument becomes the
\* value of the group's last option x (overwriting an OptArg, appended to an
\* OptVec) and changes no other descriptor.
C3_GroupValueGoesToItsOption ==
    [][(AtToken /\ expecting_opt /\ argv[i] # tEmpty
            /\ GroupEndingInValueOption(PrevArg))
         => LET x == optByShort[PrevArg[Len(PrevArg)]] IN
            /\ result' = Running
            /\ ~expecting_opt'
            /\ opts[x].kind = "OptArg" => opts'[x].Opt = argv[i]
            /\ opts[x].kind = "OptVec"
                  => opts'[x].OptArgs = Append(opts[x].OptArgs, argv[i])
            /\ \A d \in 1..Len(opts) : d # x => opts'[d] = opts[d]]_vars

\* C6 as stated: when the arguments run out while a value is awaited, the
\* call returns MissingArgument with the short character and long name of
\* the option that is waiting, however the wait began.
C6_MissingArgumentNamesPending ==
    (Returned /\ i > Len(argv) /\ expecting_opt)
        => /\ pending # NIL
           /\ result = Ret("MissingArgument", opts[pending].Short,
                           opts[pending].Long, <<>>)

\* C12 as stated: while a value is awaited for descriptor D, the next
\* non-empty argument, whatever its shape, is stored as D's value (replacing
\* an OptArg's, appended to an OptVec's): no other descriptor changes, Rest
\* and StdinHandler are left alone, the call neither ends nor fails, and the
\* wait is over.
C12_AwaitedValueIsConsumed ==
    [][(AtToken /\ expecting_opt /\ pending # NIL /\ argv[i] # tEmpty)
         => /\ result' = Running /\ pc' = "loop"
            /\ ~expecting_opt'
            /\ opts[pending].kind = "OptArg" => opts'[pending].Opt = argv[i]
            /\ opts[pending].kind = "OptVec"
                  => opts'[pending].OptArgs = Append(opts[pending].OptArgs, argv[i])
            /\ \A d \in 1..Len(opts) : d # pending => opts'[d] = opts[d]
            /\ Rest' = Rest
            /\ stdinCalls' = stdinCalls]_vars

-----------------------------------------------------------------------------
(* SpecCount: one OptCount -c/--ct beside one Flag -f/--fl.                 *)

CountTokens ==
    {Minus("c"), Plus("c"), <<"-", "c", "c", "c">>, <<"+", "c", "c">>,
     <<"-", "f", "c">>, Long(NameCt), LongEq(NameCt, <<"3">>),
     LongEq(NameCt, <<"0", "1", "0">>), LongEq(NameCt, <<"x">>)}

NextCount ==
    \/ Free("c", NameCt) /\ NewOptCount("c", NameCt)
    \/ Free("f", NameFl) /\ NewFlag("f", NameFl)
    \/ \E args \in Argvs(CountTokens) : ParseArgv(args)
    \/ LoopBody
    \/ LoopExit

SpecCount == Init /\ [][NextCount]_vars

\* First position of a '-' group that is no registered Flag or OptCount
\* (Len + 1 if there is none): the scan applies every byte in front of it.
PositiveScanEnd(arg) ==
    LET stops == {k \in 2..Len(arg) : KindOfShort(arg[k]) \notin {"Flag", "OptCount"}}
    IN  IF stops = {} THEN Len(arg) + 1
        ELSE CHOOSE k \in stops : \A j \in stops : k <= j

\* First position of a '+' group that is not registered.
NegateScanEnd(arg) ==
    LET stops == {k \in 2..Len(arg) : arg[k] \notin DOMAIN optByShort}
    IN  IF stops = {} THEN Len(arg) + 1
        ELSE CHOOSE k \in stops : \A j \in stops : k <= j

Occurrences(arg, c, end) == Cardinality({k \in 2..(end - 1) : arg[k] = c})

\* The integer a Go literal written in argv denotes.
NumeralValue(lit) ==
    CASE lit = <<"3">> -> 3
      [] lit = <<"0", "1", "0">> -> 8
      [] OTHER -> -1

\* C7: for a registered OptCount, every -x the parser applies ("-x", each x
\* of a '-' group, "--long") adds exactly 1, every +x it applies subtracts
\* exactly 1, and "--long=N" sets count to N; from count 0 the calls
\* ["-xxx"], ["--long","--long","--long"] and ["--long=3"] end with count 3.
C7_CounterArithmetic ==
    [][\A d \in 1..Len(opts) : RegisteredAs(d, "OptCount") =>
         LET x == opts[d].Short
             long == opts[d].Long
         IN
         /\ (AtToken /\ ~expecting_opt) =>
              LET arg == argv[i] IN
              /\ (Len(arg) >= 2 /\ arg[1] = "-" /\ arg[2] # "-")
                   => opts'[d].Count
                        = opts[d].Count + Occurrences(arg, x, PositiveScanEnd(arg))
              /\ (Len(arg) >= 2 /\ arg[1] = "+")
                   => opts'[d].Count
                        = opts[d].Count - Occurrences(arg, x, NegateScanEnd(arg))
              /\ arg = Long(long) => opts'[d].Count = opts[d].Count + 1
              /\ (StartsWith(arg, LongEq(long, tEmpty))
                    /\ NumeralValue(Tail0(arg, Len(long) + 3)) >= 0)
                   => opts'[d].Count = NumeralValue(Tail0(arg, Len(long) + 3))
         /\ (Returned' /\ d <= Len(opts0') /\ opts0'[d].Count = 0
               /\ argv' \in {<<(<<"-", x, x, x>>)>>,
                             <<Long(long), Long(long), Long(long)>>,
                             <<LongEq(long, <<"3">>)>>})
              => opts'[d].Count = 3 /\ result' = Nil]_vars

\* Three --ct in one call took the count from 0 to 3.
C7_Witness ==
    /\ Returned /\ result = Nil
    /\ argv = <<Long(NameCt), Long(NameCt), Long(NameCt)>>
    /\ \E d \in 1..Len(opts0) : RegisteredAs(d, "OptCount")
         /\ opts0[d].Count = 0 /\ opts[d].Count = 3

\* The bytes of a group as two-byte arguments of their own: -abc as -a, -b,
\* -c and +abc as +a, +b, +c.
Separate(arg) == [k \in 1..(Len(arg) - 1) |-> <<arg[1], arg[k + 1]>>]

\* A '-' group of registered Flags and OptCounts, or a '+' group of
\* registered options.
PlainGroup(arg) ==
    /\ Len(arg) >= 3
    /\ \/ /\ arg[1] = "-" /\ arg[2] # "-"
          /\ \A k \in 2..Len(arg) : KindOfShort(arg[k]) \in {"Flag", "OptCount"}
       \/ /\ arg[1] = "+"
          /\ \A k \in 2..Len(arg) : arg[k] \in DOMAIN optByShort

\* C17: a '-' group of Flag and OptCount bytes, and a '+' group of registered
\* bytes, leave the descriptors, Rest and the course of the call exactly as
\* the same bytes given as separate two-byte arguments would, from left to
\* right.
C17_GroupEqualsSeparateTokens ==
    [][(AtToken /\ ~expecting_opt /\ PlainGroup(argv[i]))
         => LET n == Steps(Locals, Separate(argv[i]), 1)
            IN  /\ opts' = n.opts
                /\ Rest' = n.Rest
                /\ stdinCalls' = n.stdinCalls
                /\ expecting_opt' = n.expecting_opt
                /\ result' = n.ret /\ n.ret = Running]_vars

\* "-fc" set the flag and counted once, "+cc" counted back twice.
C17_Witness ==
    /\ Returned /\ result = Nil
    /\ argv = <<(<<"-", "f", "c">>), <<"+", "c", "c">>>>
    /\ \E d \in 1..Len(opts0) : RegisteredAs(d, "Flag") /\ ~opts0[d].Passed
                                  /\ opts[d].Passed
    /\ \E d \in 1..Len(opts0) : RegisteredAs(d, "OptCount")
                                  /\ opts[d].Count = opts0[d].Count - 1

-----------------------------------------------------------------------------
(* SpecFlag: one Flag -f/--fl and the boolean literals.                     *)

FlagTokens ==
    {Minus("f"), Plus("f"), Long(NameFl),
     LongEq(NameFl, <<"t">>), LongEq(NameFl, <<"T">>),
     LongEq(NameFl, <<"t", "r", "u", "e">>), LongEq(NameFl, <<"T", "r", "U", "e">>),
     LongEq(NameFl, <<"f">>), LongEq(NameFl, <<"F">>),
     LongEq(NameFl, <<"F", "A", "L", "S", "E">>),
     LongEq(NameFl, <<"F", "a", "s", "e">>), LongEq(NameFl, tEmpty)}

NextFlag ==
    \/ Free("f", NameFl) /\ NewFlag("f", NameFl)
    \/ \E args \in Argvs(FlagTokens) : ParseArgv(args)
    \/ LoopBody
    \/ LoopExit

SpecFlag == Init /\ [][NextFlag]_vars

\* V spells the lower-case word w in some mix of upper and lower case.
Spells(V, w) ==
    /\ Len(V) = Len(w)
    /\ \A k \in 1..Len(w) :
          V[k] = w[k] \/ V[k] = UpperCase[IndexIn(LowerCase, w[k])]

\* C8: for a registered Flag, whatever passed was: "-x", "--long" and
\* "--long=V" with V spelling t or true leave passed true; "+x" and
\* "--long=V" with V spelling f or false leave passed false; "--long=V" with
\* any other V makes the call return the boolean parse error.
C8_FlagSetting ==
    [][\A d \in 1..Len(opts) : (RegisteredAs(d, "Flag") /\ AtToken /\ ~expecting_opt) =>
         LET arg == argv[i]
             V == Tail0(arg, Len(opts[d].Long) + 3)
         IN
         /\ arg \in {Minus(opts[d].Short), Long(opts[d].Long)}
               => opts'[d].Passed /\ result' = Running
         /\ arg = Plus(opts[d].Short) => ~opts'[d].Passed /\ result' = Running
         /\ StartsWith(arg, LongEq(opts[d].Long, tEmpty)) =>
               IF Spells(V, <<"t">>) \/ Spells(V, <<"t", "r", "u", "e">>)
               THEN opts'[d].Passed /\ result' = Running
               ELSE IF Spells(V, <<"f">>) \/ Spells(V, <<"f", "a", "l", "s", "e">>)
               THEN ~opts'[d].Passed /\ result' = Running
               ELSE result'.kind = "BooleanParse" /\ pc' = "idle"]_vars

\* -f, then --fl=FALSE, then --fl=Fase: the flag was set, cleared, and the
\* call failed on the misspelt literal.
C8_Witness ==
    /\ Returned /\ result.kind = "BooleanParse"
    /\ argv = <<Minus("f"), LongEq(NameFl, <<"F", "A", "L", "S", "E">>),
                LongEq(NameFl, <<"F", "a", "s", "e">>)>>
    /\ i = 3
    /\ \E d \in 1..Len(opts) : RegisteredAs(d, "Flag") /\ ~opts[d].Passed

-----------------------------------------------------------------------------
(* SpecVec: one OptVec -v/--ve and every way of giving it a value.          *)

tC == <<"C">>

VecTokens ==
    {tEmpty, tA, LongEq(NameVe, tB), LongEq(NameVe, tEmpty), Long(NameVe),
     Minus("v"), Minus("v") \o tC, Plus("v")}

NextVec ==
    \/ Free("v", NameVe) /\ NewOptVec("v", NameVe)
    \/ \E args \in Argvs(VecTokens) : ParseArgv(args)
    \/ LoopBody
    \/ LoopExit

SpecVec == Init /\ [][NextVec]_vars

\* argv[i] is the V of "--long" V or of "-x" V.
SeparateFormShortOrLong(d) ==
    /\ AtToken /\ expecting_opt
    /\ PrevArg \in {Long(opts[d].Long), Minus(opts[d].Short)}

\* C9 as stated: every occurrence with a value V ("--long=V", "--long" V,
\* "-x" V, "-xV") appends V to values; "+x" empties values.
C9_EveryValueIsAppended ==
    [][\A d \in 1..Len(opts) : RegisteredAs(d, "OptVec") =>
          /\ InlineForm(d) => opts'[d].OptArgs = Append(opts[d].OptArgs, InlineValue(d))
          /\ SeparateFormShortOrLong(d)
                => opts'[d].OptArgs = Append(opts[d].OptArgs, argv[i])
          /\ (AtToken /\ ~expecting_opt /\ argv[i] = Plus(opts[d].Short))
                => opts'[d].OptArgs = <<>>]_vars

\* C9 amended: the same, the V of "--long" V and "-x" V being non-empty (an
\* empty argument is skipped and the option keeps waiting).
C9_NonEmptyValueIsAppended ==
    [][\A d \in 1..Len(opts) : RegisteredAs(d, "OptVec") =>
          /\ InlineForm(d)
                => /\ opts'[d].OptArgs = Append(opts[d].OptArgs, InlineValue(d))
                   /\ result' = Running
          /\ (SeparateFormShortOrLong(d) /\ argv[i] # tEmpty)
                => /\ opts'[d].OptArgs = Append(opts[d].OptArgs, argv[i])
                   /\ result' = Running
          /\ (AtToken /\ ~expecting_opt /\ argv[i] = Plus(opts[d].Short))
                => opts'[d].OptArgs = <<>> /\ result' = Running]_vars

\* An earlier call left B in values; this call appends A behind it.
C9_Witness ==
    /\ Returned /\ result = Nil
    /\ argv = <<Minus("v"), tA>>
    /\ \E d \in 1..Len(opts0) : RegisteredAs(d, "OptVec")
         /\ opts0[d].OptArgs = <<tB>>
         /\ opts[d].OptArgs = <<tB, tA>>

-----------------------------------------------------------------------------
(* SpecReg: the keys -f/--fl are registered again and again, as a Flag, as  *)
(* an OptCount, and as an OptCount that shares only the short character.    *)

NameGl == <<"g", "l">>

RegTokens == {Minus("f"), Long(NameFl), Long(NameGl)}

NextReg ==
    \/ NewFlag("f", NameFl)
    \/ NewOptCount("f", NameFl)
    \/ NewOptCount("f", NameGl)
    \/ \E args \in Argvs(RegTokens) : ParseArgv(args)
    \/ LoopBody
    \/ LoopExit

SpecReg == Init /\ [][NextReg]_vars

\* Descriptor d is the last one constructed with its short character / its
\* long name.
NewestShort(d) == \A e \in (d + 1)..Len(opts) : opts[e].Short # opts[d].Short
NewestLong(d) == \A e \in (d + 1)..Len(opts) : opts[e].Long # opts[d].Long

\* Both keys of descriptor d were registered again after d was constructed.
Superseded(d) == ~NewestShort(d) /\ ~NewestLong(d)

\* C11: every short character and long name that was ever registered resolves
\* to the descriptor registered with it last; a token handled by ParseArgv
\* changes no descriptor but the ones the two maps resolve to, so a
\* descriptor whose short character and long name were both registered again
\* is never changed by a later call and keeps its contents.
C11_LastRegistrationWins ==
    [][/\ \A d \in 1..Len(opts') :
            /\ opts'[d].Short \in DOMAIN optByShort'
            /\ opts'[d].Long \in DOMAIN optByLong'
            /\ optByShort'[opts'[d].Short] = d
                 <=> \A e \in (d + 1)..Len(opts') : opts'[e].Short # opts'[d].Short
            /\ optByLong'[opts'[d].Long] = d
                 <=> \A e \in (d + 1)..Len(opts') : opts'[e].Long # opts'[d].Long
       /\ \A d \in 1..Len(opts) :
            /\ NewestShort(d) <=> optByShort[opts[d].Short] = d
            /\ NewestLong(d) <=> optByLong[opts[d].Long] = d
            /\ Superseded(d) => opts'[d] = opts[d]]_vars

\* A Flag set by "-f", then replaced under both keys by an OptCount: the next
\* call's "-f" counts on the OptCount and the old Flag still reads true.
C11_Witness ==
    /\ Returned /\ result = Nil
    /\ argv = <<Minus("f"), Long(NameFl)>>
    /\ Len(opts) >= 2
    /\ opts[1].kind = "Flag" /\ opts[1].Passed /\ Superseded(1)
    /\ opts0[1] = opts[1]
    /\ opts[Len(opts)].kind = "OptCount" /\ opts[Len(opts)].Long = NameFl
    /\ opts[Len(opts)].Count = 2

-----------------------------------------------------------------------------
(* SpecErr: every way a call can fail inside the loop, with one Flag -f/--fl *)
(* and one OptCount -c/--ct that may or may not be registered.               *)

ErrTokens ==
    {tDash, tP, Minus("f"), Minus("c"), <<"-", "f", "c">>, <<"+", "f", "c">>,
     Long(NameCt), LongEq(NameCt, <<"x">>), LongEq(NameFl, <<"x">>)}

NextErr ==
    \/ Free("f", NameFl) /\ NewFlag("f", NameFl)
    \/ Free("c", NameCt) /\ NewOptCount("c", NameCt)
    \/ \E args \in Argvs(ErrTokens) : ParseArgv(args)
    \/ LoopBody
    \/ LoopExit

SpecErr == Init /\ [][NextErr]_vars

ErrorKinds ==
    {"UnrecognizedShort", "UnrecognizedLong", "BooleanParse", "NumberParse",
     "StdinError"}

\* Descriptor d after the positive (sign "-") or negated (sign "+") effect of
\* the bytes 2..end-1 of a group.
AfterGroupPrefix(d, arg, end, sign) ==
    LET n == Occurrences(arg, opts[d].Short, end) IN
    IF n = 0 THEN opts[d]
    ELSE CASE opts[d].kind = "Flag" -> [opts[d] EXCEPT !.Passed = (sign = "-")]
           [] opts[d].kind = "OptCount" ->
                [opts[d] EXCEPT !.Count = IF sign = "-" THEN @ + n ELSE @ - n]
           [] opts[d].kind = "OptArg" -> [opts[d] EXCEPT !.Opt = <<>>]
           [] opts[d].kind = "OptVec" -> [opts[d] EXCEPT !.OptArgs = <<>>]

\* C13: when the loop returns an error at argument i (an unrecognized option,
\* a boolean or number that does not parse, StdinHandler's error), Rest and
\* the descriptors are what the earlier arguments left, plus, for a group of
\* shorts, the effect of the bytes in front of the unrecognized one; the
\* failing argument or byte has no effect of its own, and nothing is
\* processed after the return.
C13_ErrorKeepsEarlierEffects ==
    [][/\ (AtToken /\ result'.kind \in ErrorKinds)
            => /\ pc' = "idle" /\ i' = i
               /\ Rest' = Rest
               /\ Len(opts') = Len(opts)
               /\ result'.kind # "UnrecognizedShort" => opts' = opts
               /\ result'.kind = "UnrecognizedShort"
                    => LET arg == argv[i]
                           end == IF arg[1] = "-" THEN PositiveScanEnd(arg)
                                  ELSE NegateScanEnd(arg)
                       IN  /\ end <= Len(arg)
                           /\ result'.short = arg[end]
                           /\ \A d \in 1..Len(opts) :
                                opts'[d] = AfterGroupPrefix(d, arg, end, arg[1])
       /\ (pc = "idle" /\ pc' = "idle")
            => /\ Rest' = Rest
               /\ \A d \in 1..Len(opts) : opts'[d] = opts[d]]_vars

\* "-f" counted the flag in; the group "-fc" then set nothing new but failed
\* on the unregistered c, and "--ct=x" behind it was never looked at.
C13_Witness ==
    /\ Returned /\ result.kind = "UnrecognizedShort" /\ result.short = "c"
    /\ argv = <<tP, <<"-", "f", "c">>, LongEq(NameCt, <<"x">>)>>
    /\ i = 2
    /\ Rest = Rest0 \o <<tP>>
    /\ \E d \in 1..Len(opts0) : RegisteredAs(d, "Flag") /\ ~opts0[d].Passed
                                  /\ opts[d].Passed

-----------------------------------------------------------------------------
(* SpecPlus: negation of options that take a value.  One OptArg -o/--oa and *)
(* one OptVec -v/--ve.                                                       *)

PlusTokens ==
    {tA, LongEq(NameOa, tA), LongEq(NameVe, tA), Plus("o"), Plus("v"),
     <<"+", "o", "v">>, <<"+", "v", "o">>}

NextPlus ==
    \/ Free("o", NameOa) /\ NewOptArg("o", NameOa)
    \/ Free("v", NameVe) /\ NewOptVec("v", NameVe)
    \/ \E args \in Argvs(PlusTokens) : ParseArgv(args)
    \/ LoopBody
    \/ LoopExit

SpecPlus == Init /\ [][NextPlus]_vars

\* The last non-empty argument of the call begins with '+'.
EndsWithNegation ==
    \E k \in 1..Len(argv) :
        /\ Len(argv[k]) >= 2 /\ argv[k][1] = "+"
        /\ \A j \in (k + 1)..Len(argv) : argv[j] = tEmpty

\* C15: "+c" and a '+' group never start a wait for a value: an OptArg named
\* in it has the empty value and an OptVec no values right after the
\* argument, the bytes behind it are negated in turn, the next argument is
\* classified on its own, and a call whose last argument is a '+' form does
\* not end with MissingArgument.
C15_NegationNeverAwaits ==
    [][/\ (AtToken /\ ~expecting_opt /\ Len(argv[i]) >= 2 /\ argv[i][1] = "+")
            => LET arg == argv[i]
                   end == NegateScanEnd(arg)
               IN  /\ ~expecting_opt' /\ pending' = NIL
                   /\ Rest' = Rest
                   /\ \A d \in 1..Len(opts) :
                        opts'[d] = AfterGroupPrefix(d, arg, end, "+")
                   /\ \A d \in 1..Len(opts) :
                        Occurrences(arg, opts[d].Short, end) > 0
                            => opts'[d].Opt = <<>> /\ opts'[d].OptArgs = <<>>
                   /\ IF end > Len(arg) \/ Len(arg) = 2
                      THEN result' = Running /\ i' = i + 1
                      ELSE result'.kind = "UnrecognizedShort"
       /\ (pc = "loop" /\ i > Len(argv) /\ EndsWithNegation)
            => result' = Nil]_vars

\* "--ve=A" gave v a value; "+ov" emptied o and then v; the A behind it went
\* to Rest and the call returned nil.
C15_Witness ==
    /\ Returned /\ result = Nil
    /\ argv = <<LongEq(NameVe, tA), <<"+", "o", "v">>, tA>>
    /\ Rest = Rest0 \o <<tA>>
    /\ \E d \in 1..Len(opts) : RegisteredAs(d, "OptVec") /\ opts[d].OptArgs = <<>>
    /\ \E d \in 1..Len(opts) : RegisteredAs(d, "OptArg") /\ opts[d].Opt = <<>>

-----------------------------------------------------------------------------
(* SpecAttach: values attached to a group of shorts.  One Flag -f/--fl, one *)
(* OptArg -o/--oa and one OptVec -v/--ve; z is never registered.            *)

AttachTokens ==
    {tA, Minus("f"), <<"-", "o", "f">>, <<"-", "f", "o", "v">>,
     <<"-", "v", "f", "o">>, <<"-", "f", "v", "z">>}

NextAttach ==
    \/ Free("f", NameFl) /\ NewFlag("f", NameFl)
    \/ Free("o", NameOa) /\ NewOptArg("o", NameOa)
    \/ Free("v", NameVe) /\ NewOptVec("v", NameVe)
    \/ \E args \in Argvs(AttachTokens) : ParseArgv(args)
    \/ LoopBody
    \/ LoopExit

SpecAttach == Init /\ [][NextAttach]_vars

\* A '-' group in which Flags and Counters lead to an OptArg or OptVec that
\* is not the last byte.
GroupWithAttachedValue(arg) ==
    /\ Len(arg) >= 3
    /\ arg[1] = "-" /\ arg[2] # "-"
    /\ PositiveScanEnd(arg) < Len(arg)
    /\ KindOfShort(arg[PositiveScanEnd(arg)]) \in {"OptArg", "OptVec"}

\* C16: in a '-' group, an OptArg or OptVec byte with bytes behind it takes
\* all of them as its value and ends the scan: those bytes are not looked
\* up, set no Flag and count on no OptCount, raise no error even when they
\* are not registered, and no value is awaited.
C16_AttachedValueEndsScan ==
    [][(AtToken /\ ~expecting_opt /\ GroupWithAttachedValue(argv[i]))
         => LET arg == argv[i]
                end == PositiveScanEnd(arg)
                x == optByShort[arg[end]]
                V == SubSeq(arg, end + 1, Len(arg))
            IN  /\ result' = Running /\ pc' = "loop" /\ i' = i + 1
                /\ ~expecting_opt' /\ pending' = NIL
                /\ Rest' = Rest
                /\ opts[x].kind = "OptArg" => opts'[x] = [opts[x] EXCEPT !.Opt = V]
                /\ opts[x].kind = "OptVec"
                     => opts'[x] = [opts[x] EXCEPT !.OptArgs = Append(@, V)]
                /\ \A d \in 1..Len(opts) :
                     d # x => opts'[d] = AfterGroupPrefix(d, arg, end, "-")]_vars

\* "-of" stored f in o and "-vfo" appended fo to v; the registered Flag f is
\* still false and o was not asked for a value: the A behind went to Rest.
C16_Witness ==
    /\ Returned /\ result = Nil
    /\ argv = <<(<<"-", "o", "f">>), <<"-", "v", "f", "o">>, tA>>
    /\ Rest = Rest0 \o <<tA>>
    /\ \E d \in 1..Len(opts) : RegisteredAs(d, "Flag") /\ ~opts[d].Passed
    /\ \E d \in 1..Len(opts) : RegisteredAs(d, "OptArg") /\ opts[d].Opt = <<"f">>
    /\ \E d \in 1..Len(opts) : RegisteredAs(d, "OptVec")
                                 /\ opts[d].OptArgs = <<(<<"f", "o">>)>>

====
